---- MODULE Spec2Model ----
(***************************************************************************)
(* Model of query_benchmarker_cassandra/client_side_index.go:              *)
(* the Series parser (NewSeries / parse), the ClientSideIndex constructor  *)
(* (NewClientSideIndex), CopyOfSeriesCollection and the Matches*           *)
(* predicates.                                                             *)
(*                                                                         *)
(* Go strings that the code takes apart (series ids) are sequences of      *)
(* one-character strings; strings that are only compared or stored are     *)
(* TLA+ strings.  Slices are [arr, len, cap] headers over arrays kept in   *)
(* a heap, so that aliasing between slices is visible.  A *Series is an    *)
(* address: either a heap cell holding a range loop variable, or an        *)
(* element of a heap array.                                                *)
(***************************************************************************)
EXTENDS Integers, Sequences, FiniteSets, TLC

VARIABLES
    pc,                   \* position of the program: which call has run
    table, id,            \* arguments of NewSeries
    parsed,               \* outcome of NewSeries
    row, tagsets,         \* receiver and argument of a sequential MatchesTagSets call
    matched,              \* its result
    loopvarPerIteration,  \* the build: does a range loop declare one variable per iteration
    input,                \* the caller's slice, passed to NewClientSideIndex
    arrays,               \* heap: backing arrays of slices
    cells,                \* heap: range loop variables whose address was taken
    csi,                  \* the constructed *ClientSideIndex, as a sequence of 0 or 1 objects
    atBuild,              \* history: contents of the input slice when the constructor ran
    copies,               \* slices returned by CopyOfSeriesCollection
    writes,               \* number of caller writes so far
    readers               \* concurrent reader goroutines

vars == <<pc, table, id, parsed, row, tagsets, matched, loopvarPerIteration,
          input, arrays, cells, csi, atBuild, copies, writes, readers>>

parseVars == <<table, id, parsed>>
matchVars == <<row, tagsets, matched>>
indexVars == <<loopvarPerIteration, input, arrays, cells, csi, atBuild, copies, writes>>

----------------------------------------------------------------------------
(* Bounds of the model *)

MaxTagTokens == 2      \* tag tokens in a generated series id
MaxGroups == 2         \* tag groups in a MatchesTagSets argument
MaxGroupLen == 2       \* tags in one tag group
MaxRows == 2           \* rows handed to NewClientSideIndex
MaxCopies == 2         \* calls of CopyOfSeriesCollection
MaxWrites == 2         \* caller writes to slices it holds
NReaders == 2          \* concurrent readers

----------------------------------------------------------------------------
(* Strings as character sequences *)

Digits == <<"0", "1", "2", "3", "4", "5", "6", "7", "8", "9">>

isDigit(s, i) == i < Len(s) /\ \E k \in 1..10 : Digits[k] = s[i + 1]

DigitVal(c) == (CHOOSE k \in 1..10 : Digits[k] = c) - 1

RECURSIVE Split(_, _)
Split(s, sep) ==
    IF \A i \in 1..Len(s) : s[i] # sep
    THEN <<s>>
    ELSE LET i == CHOOSE k \in 1..Len(s) :
                      s[k] = sep /\ \A j \in 1..(k - 1) : s[j] # sep
         IN  <<SubSeq(s, 1, i - 1)>> \o Split(SubSeq(s, i + 1, Len(s)), sep)

RECURSIVE Join(_, _)
Join(parts, sep) ==
    IF Len(parts) = 0 THEN <<>>
    ELSE IF Len(parts) = 1 THEN parts[1]
    ELSE parts[1] \o <<sep>> \o Join(Tail(parts), sep)

----------------------------------------------------------------------------
(* Time: instants are hours since 0001-01-01T00:00:00Z *)

BucketDuration == 24

NewTimeInterval(start, end) == [Start |-> start, End |-> end]

ZeroTimeInterval == [Start |-> 0, End |-> 0]

Overlap(ti, other) == ti.Start < other.End /\ other.Start < ti.End

isLeap(year) == year % 4 = 0 /\ (year % 100 # 0 \/ year % 400 = 0)

daysIn(month, year) ==
    IF month = 2 THEN (IF isLeap(year) THEN 29 ELSE 28)
    ELSE IF month \in {4, 6, 9, 11} THEN 30 ELSE 31

RECURSIVE daysBefore(_, _)
daysBefore(month, year) ==
    IF month = 1 THEN 0 ELSE daysBefore(month - 1, year) + daysIn(month - 1, year)

Date(year, month, day) ==
    LET y == year - 1
        d == 365 * y + (y \div 4) - (y \div 100) + (y \div 400)
             + daysBefore(month, year) + (day - 1)
    IN  d * 24

\* getnum(s, fixed = true) of package time: two digits or an error
getnum(s) ==
    IF isDigit(s, 0) /\ isDigit(s, 1)
    THEN [err |-> FALSE, n |-> DigitVal(s[1]) * 10 + DigitVal(s[2]),
          rest |-> SubSeq(s, 3, Len(s))]
    ELSE [err |-> TRUE, n |-> 0, rest |-> s]

\* time.Parse("2006-01-02", value): four digit year, "-", two digit month,
\* "-", two digit day, no text after it, month and day in range.
TimeParse(value) ==
    LET bad == [err |-> TRUE, t |-> 0] IN
    IF Len(value) < 4 \/ ~(\A i \in 0..3 : isDigit(value, i)) THEN bad ELSE
    LET year == DigitVal(value[1]) * 1000 + DigitVal(value[2]) * 100
                + DigitVal(value[3]) * 10 + DigitVal(value[4])
        v1 == SubSeq(value, 5, Len(value))
    IN
    IF Len(v1) = 0 \/ v1[1] # "-" THEN bad ELSE
    LET m == getnum(Tail(v1)) IN
    IF m.err THEN bad ELSE
    IF Len(m.rest) = 0 \/ m.rest[1] # "-" THEN bad ELSE
    LET d == getnum(Tail(m.rest)) IN
    IF d.err THEN bad ELSE
    IF m.n <= 0 \/ 12 < m.n THEN bad ELSE
    IF Len(d.rest) # 0 THEN bad ELSE
    IF d.n < 1 \/ d.n > daysIn(m.n, year) THEN bad ELSE
    [err |-> FALSE, t |-> Date(year, m.n, d.n)]

----------------------------------------------------------------------------
(* Series and its parser *)

ZeroSeries ==
    [Table |-> "", Id |-> <<>>, Measurement |-> <<>>, Tags |-> {},
     Field |-> <<>>, TimeInterval |-> ZeroTimeInterval]

Fatal(msg) == [fatal |-> TRUE, msg |-> msg, ret |-> <<>>]

Returns(s) == [fatal |-> FALSE, msg |-> "", ret |-> <<s>>]

\* the tag loop of parse: "dup" when a token is already in the set
RECURSIVE parseTags(_, _)
parseTags(toks, tags) ==
    IF Len(toks) = 0 THEN [dup |-> FALSE, tags |-> tags]
    ELSE IF Head(toks) \in tags THEN [dup |-> TRUE, tags |-> tags]
    ELSE parseTags(Tail(toks), tags \cup {Head(toks)})

parseNoDuplicateCheck(s) ==
    LET sections == Split(s.Id, "#") IN
    IF Len(sections) # 3 THEN Fatal("logic error: invalid series id") ELSE
    LET measurementAndTags == Split(sections[1], ",")
        start == TimeParse(sections[3])
    IN
    IF start.err
    THEN Fatal("bad time bucket parse in pre-existing database series") ELSE
    Returns([s EXCEPT !.Measurement = measurementAndTags[1],
                      !.Tags = {measurementAndTags[i] : i \in 2..Len(measurementAndTags)},
                      !.Field = sections[2],
                      !.TimeInterval =
                          NewTimeInterval(start.t, start.t + BucketDuration)])

parseFieldFromDateSection(s) ==
    LET sections == Split(s.Id, "#") IN
    IF Len(sections) # 3 THEN Fatal("logic error: invalid series id") ELSE
    LET measurementAndTags == Split(sections[1], ",")
        tags == parseTags(Tail(measurementAndTags), {})
    IN
    IF tags.dup THEN Fatal("logic error: duplicate tag") ELSE
    LET start == TimeParse(sections[3]) IN
    IF start.err
    THEN Fatal("bad time bucket parse in pre-existing database series") ELSE
    Returns([s EXCEPT !.Measurement = measurementAndTags[1],
                      !.Tags = tags.tags,
                      !.Field = sections[3],
                      !.TimeInterval =
                          NewTimeInterval(start.t, start.t + BucketDuration)])

\* (s *Series).parse, with log.Fatal as the outcome Fatal(msg)
parse(s) ==
    LET sections == Split(s.Id, "#") IN
    IF Len(sections) # 3 THEN Fatal("logic error: invalid series id") ELSE
    LET measurementAndTags == Split(sections[1], ",")
        tags == parseTags(Tail(measurementAndTags), {})
    IN
    IF tags.dup THEN Fatal("logic error: duplicate tag") ELSE
    LET start == TimeParse(sections[3]) IN
    IF start.err
    THEN Fatal("bad time bucket parse in pre-existing database series") ELSE
    Returns([s EXCEPT !.Measurement = measurementAndTags[1],
                      !.Tags = tags.tags,
                      !.Field = sections[2],
                      !.TimeInterval =
                          NewTimeInterval(start.t, start.t + BucketDuration)])

NewSeries(t, i) == parse([ZeroSeries EXCEPT !.Table = t, !.Id = i])

----------------------------------------------------------------------------
(* Inputs of the parser: series ids assembled from tokens *)

Str_cpu == <<"c", "p", "u">>
Str_mem == <<"m", "e", "m">>
Tag_h0 == <<"h", "=", "0">>
Tag_h1 == <<"h", "=", "1">>
Tag_eu == <<"r", "=", "e", "u">>
Str_idle == <<"i", "d", "l", "e">>
Str_avail == <<"a", "v">>
Day_0101 == <<"2", "0", "1", "6", "-", "0", "1", "-", "0", "1">>
Day_0102 == <<"2", "0", "1", "6", "-", "0", "1", "-", "0", "2">>
Day_0229 == <<"2", "0", "1", "6", "-", "0", "2", "-", "2", "9">>
Day_0301 == <<"2", "0", "1", "6", "-", "0", "3", "-", "0", "1">>

BadDays ==
    { <<>>,
      <<"2", "0", "1", "5", "-", "0", "2", "-", "2", "9">>,
      <<"2", "0", "1", "6", "-", "1", "3", "-", "0", "1">>,
      <<"2", "0", "1", "6", "-", "0", "4", "-", "3", "1">>,
      <<"2", "0", "1", "6", "-", "1", "-", "0", "1">>,
      <<"2", "0", "1", "6", "-", "0", "1", "-", "0", "1", "x">>,
      <<"2", "0", "1", "6", "/", "0", "1", "/", "0", "1">>,
      <<"1", "6", "-", "0", "1", "-", "0", "1">>,
      <<"i", "d", "l", "e">> }

Tables == {"series_bigint", "series_double"}
Measurements == {Str_cpu, <<>>}
TagTokens == {Tag_h0, Tag_h1, <<>>}
Fields == {Str_idle}
Days == {Day_0101, Day_0102, Day_0229, Day_0301} \cup BadDays

SeqsUpTo(S, n) == UNION { [1..k -> S] : k \in 0..n }

FirstSections ==
    { Join(<<m>> \o ts, ",") : m \in Measurements, ts \in SeqsUpTo(TagTokens, MaxTagTokens) }

\* ids of one, two, three and four '#'-sections
Ids ==
    FirstSections
    \cup { Join(<<a, f>>, "#") : a \in FirstSections, f \in Fields }
    \cup { Join(<<a, f, d>>, "#") : a \in FirstSections, f \in Fields, d \in Days }
    \cup { Join(<<a, f, d, f>>, "#") : a \in FirstSections, f \in Fields, d \in {Day_0101} }

----------------------------------------------------------------------------
(* Values the variables of the other calls keep while one call is checked *)

NoParse == [fatal |-> FALSE, msg |-> "", ret |-> <<>>]
NoSlice == [arr |-> 0, len |-> 0, cap |-> 0]

ParseIdle == table = "" /\ id = <<>> /\ parsed = NoParse
MatchIdle == row = ZeroSeries /\ tagsets = <<>> /\ matched = FALSE
IndexIdle ==
    /\ loopvarPerIteration = FALSE
    /\ input = NoSlice
    /\ arrays = <<>>
    /\ cells = <<>>
    /\ csi = <<>>
    /\ atBuild = <<>>
    /\ copies = <<>>
    /\ writes = 0
ReadersIdle == readers = <<>>

----------------------------------------------------------------------------
(* The parser on its own *)

InitParse ==
    /\ pc = "start"
    /\ table \in Tables
    /\ id \in Ids
    /\ parsed = NoParse
    /\ MatchIdle /\ IndexIdle /\ ReadersIdle

CallNewSeries ==
    /\ pc = "start"
    /\ parsed' = NewSeries(table, id)
    /\ pc' = IF parsed'.fatal THEN "fatal" ELSE "done"
    /\ UNCHANGED <<table, id, matchVars, indexVars, readers>>

NextParse == CallNewSeries

SpecParse == InitParse /\ [][NextParse]_vars

----------------------------------------------------------------------------
(* What the grammar <measurement>(,<tag>)* '#' <field> '#' <YYYY-MM-DD>    *)
(* says about an id, stated by positions and not by the parser's steps     *)

Positions(s, c) == { k \in 1..Len(s) : s[k] = c }

NumSections(i) == Cardinality(Positions(i, "#")) + 1

\* the piece of s that starts after position a and ends before the next c
PieceAfter(s, a, c) ==
    LET later == { k \in Positions(s, c) : k > a }
        b == IF later = {} THEN Len(s) + 1
             ELSE CHOOSE k \in later : \A j \in later : k <= j
    IN  SubSeq(s, a + 1, b - 1)

Section(i, n) ==
    IF n = 1 THEN PieceAfter(i, 0, "#")
    ELSE PieceAfter(i, CHOOSE k \in Positions(i, "#") :
                           Cardinality({ j \in Positions(i, "#") : j < k }) = n - 2, "#")

MeasurementOf(i) == PieceAfter(Section(i, 1), 0, ",")

TagsOf(i) == { PieceAfter(Section(i, 1), a, ",") : a \in Positions(Section(i, 1), ",") }

RepeatedTag(i) ==
    \E a, b \in Positions(Section(i, 1), ",") :
        a # b /\ PieceAfter(Section(i, 1), a, ",") = PieceAfter(Section(i, 1), b, ",")

Num2(s, a) == DigitVal(s[a]) * 10 + DigitVal(s[a + 1])

Num4(s, a) == Num2(s, a) * 100 + Num2(s, a + 2)

ValidDate(d) ==
    /\ Len(d) = 10
    /\ d[5] = "-" /\ d[8] = "-"
    /\ \A k \in {1, 2, 3, 4, 6, 7, 9, 10} : \E n \in 1..10 : Digits[n] = d[k]
    /\ Num2(d, 6) \in 1..12
    /\ Num2(d, 9) \in 1..daysIn(Num2(d, 6), Num4(d, 1))

StartOf(d) == Date(Num4(d, 1), Num2(d, 6), Num2(d, 9))

WellFormed(i) ==
    /\ NumSections(i) = 3
    /\ ~RepeatedTag(i)
    /\ ValidDate(Section(i, 3))

\* C6: NewSeries on a well-formed id (three '#'-sections, no repeated tag
\* token, valid date) returns a row with Table and Id equal to the
\* arguments, Measurement the first ','-token of the first section, Tags
\* exactly the set of the remaining tokens, Field the second section and
\* TimeInterval [date, date + BucketDuration).
C6_ParseWellFormed ==
    (pc # "start" /\ WellFormed(id)) =>
        /\ pc = "done"
        /\ ~parsed.fatal
        /\ Len(parsed.ret) = 1
        /\ parsed.ret[1].Table = table
        /\ parsed.ret[1].Id = id
        /\ parsed.ret[1].Measurement = MeasurementOf(id)
        /\ parsed.ret[1].Tags = TagsOf(id)
        /\ parsed.ret[1].Field = Section(id, 2)
        /\ parsed.ret[1].TimeInterval.Start = StartOf(Section(id, 3))
        /\ parsed.ret[1].TimeInterval.End = StartOf(Section(id, 3)) + BucketDuration
        /\ (Section(id, 3) = Day_0101 => parsed.ret[1].TimeInterval.Start = 735963 * 24)
        /\ (Section(id, 3) = Day_0301 => parsed.ret[1].TimeInterval.Start = 736023 * 24)

C6_Witness ==
    /\ pc = "done"
    /\ WellFormed(id)
    /\ Cardinality(parsed.ret[1].Tags) = 2
    /\ parsed.ret[1].Measurement = Str_cpu
    /\ parsed.ret[1].TimeInterval = [Start |-> 736022 * 24, End |-> 736023 * 24]

\* C7: NewSeries is fatal and returns no row when the id has fewer or more
\* than three '#'-sections, when a tag token is repeated, and when the date
\* section is no YYYY-MM-DD date; the section count is checked first.
C7_ParseMalformedFatal ==
    (pc # "start" /\ ~WellFormed(id)) =>
        /\ pc = "fatal"
        /\ parsed.fatal
        /\ parsed.ret = <<>>
        /\ (NumSections(id) # 3 => parsed.msg = "logic error: invalid series id")
        /\ (NumSections(id) = 3 /\ RepeatedTag(id) =>
                parsed.msg = "logic error: duplicate tag")
        /\ (NumSections(id) = 3 /\ ~RepeatedTag(id) =>
                parsed.msg = "bad time bucket parse in pre-existing database series")

C7_Witness ==
    /\ pc = "fatal"
    /\ parsed.ret = <<>>
    /\ NumSections(id) = 3
    /\ RepeatedTag(id)
    /\ ValidDate(Section(id, 3))

----------------------------------------------------------------------------
(* The matching predicates *)

MatchesTimeInterval(s, ti) == Overlap(s.TimeInterval, ti)

MatchesMeasurementName(s, m) == s.Measurement = m

MatchesFieldName(s, f) == s.Field = f

\* the inner loop of MatchesTagSets: does s carry one of the tags of tagset
RECURSIVE matchTagset(_, _)
matchTagset(s, tagset) ==
    IF Len(tagset) = 0 THEN FALSE
    ELSE IF Head(tagset) \in s.Tags THEN TRUE
    ELSE matchTagset(s, Tail(tagset))

\* a MatchesTagSets that is satisfied by any one group
RECURSIVE MatchesAnyTagSet(_, _)
MatchesAnyTagSet(s, groups) ==
    IF Len(groups) = 0 THEN TRUE
    ELSE IF matchTagset(s, Head(groups)) THEN TRUE
    ELSE Len(groups) > 1 /\ MatchesAnyTagSet(s, Tail(groups))

RECURSIVE MatchesTagSets(_, _)
MatchesTagSets(s, groups) ==
    IF Len(groups) = 0 THEN TRUE
    ELSE IF ~matchTagset(s, Head(groups)) THEN FALSE
    ELSE MatchesTagSets(s, Tail(groups))

----------------------------------------------------------------------------
(* Rows the program can hold: NewSeries of well-formed ids *)

QueryTags == {Tag_h0, Tag_h1, Tag_eu}

SeriesOf(t, m, ts, f, d) ==
    NewSeries(t, Join(<<Join(<<m>> \o ts, ","), f, d>>, "#")).ret[1]

\* one row per tag set over QueryTags
MatchRows ==
    { SeriesOf("series_bigint", Str_cpu, ts, Str_idle, Day_0101) :
        ts \in { <<>>, <<Tag_h0>>, <<Tag_eu>>, <<Tag_h1, Tag_eu>>,
                 <<Tag_h0, Tag_h1, Tag_eu>> } }

TagSetArgs == SeqsUpTo(SeqsUpTo(QueryTags, MaxGroupLen), MaxGroups)

----------------------------------------------------------------------------
(* MatchesTagSets on its own *)

InitMatch ==
    /\ pc = "start"
    /\ row \in MatchRows
    /\ tagsets \in TagSetArgs
    /\ matched = FALSE
    /\ ParseIdle /\ IndexIdle /\ ReadersIdle

CallMatchesTagSets ==
    /\ pc = "start"
    /\ matched' = MatchesTagSets(row, tagsets)
    /\ pc' = "done"
    /\ UNCHANGED <<row, tagsets, parseVars, indexVars, readers>>

NextMatch == CallMatchesTagSets

SpecMatch == InitMatch /\ [][NextMatch]_vars

Swap(seq, i, j) ==
    [k \in 1..Len(seq) |-> IF k = i THEN seq[j] ELSE IF k = j THEN seq[i] ELSE seq[k]]

\* C5: MatchesTagSets(row, tagsets) is true iff every group of tagsets holds
\* at least one tag of the row: true for the empty sequence, false when a
\* group is empty, and the same for any order of the groups and of the tags
\* inside a group.
C5_MatchesTagSetsAndOfOrs ==
    pc = "done" =>
        /\ matched = (\A g \in 1..Len(tagsets) :
                          \E t \in 1..Len(tagsets[g]) : tagsets[g][t] \in row.Tags)
        /\ (tagsets = <<>> => matched)
        /\ ((\E g \in 1..Len(tagsets) : tagsets[g] = <<>>) => ~matched)
        /\ \A g, h \in 1..Len(tagsets) :
               MatchesTagSets(row, Swap(tagsets, g, h)) = matched
        /\ \A g \in 1..Len(tagsets) : \A t, u \in 1..Len(tagsets[g]) :
               MatchesTagSets(row, [tagsets EXCEPT ![g] = Swap(tagsets[g], t, u)]) = matched

\* the spec's example: [[h=0, h=1], [r=eu]] on a row with r=eu and h=1 only
C5_Witness ==
    /\ pc = "done"
    /\ tagsets = <<(<<Tag_h0, Tag_h1>>), (<<Tag_eu>>)>>
    /\ row.Tags = {Tag_h1, Tag_eu}
    /\ matched

----------------------------------------------------------------------------
(* Heap: slices, arrays, pointers *)

\* the elements of a slice, in order
Elems(heap, sl) == [k \in 1..sl.len |-> heap[sl.arr][k]]

\* &s of a range loop variable, &a[i] of an array element
CellPtr(n) == <<"cell", n, 0>>
ElemPtr(a, i) == <<"elem", a, i>>

Deref(heap, vars_, p) == IF p[1] = "cell" THEN vars_[p[2]] ELSE heap[p[2]][p[3]]

EmptyMap == [k \in {} |-> {}]

\* m[k][p] = struct{}{}, creating m[k] on first use
MapInsert(m, k, p) ==
    [x \in DOMAIN m \cup {k} |->
        IF x = k THEN (IF k \in DOMAIN m THEN m[k] ELSE {}) \cup {p} ELSE m[x]]

\* "for _, s := range ..." assigns element i to s.  One variable for the
\* whole loop (Go before 1.22) or a fresh one per iteration (Go 1.22 on):
\* the result is the cells and the address &s.
RangeVar(vars_, i, v) ==
    IF loopvarPerIteration \/ i = 1
    THEN [cells |-> Append(vars_, v), addr |-> CellPtr(Len(vars_) + 1)]
    ELSE [cells |-> [vars_ EXCEPT ![Len(vars_)] = v], addr |-> CellPtr(Len(vars_))]

\* lines 31-38: the "time interval -> series" loop, from iteration i on
RECURSIVE timeIntervalLoop(_, _, _)
timeIntervalLoop(coll, i, st) ==
    IF i > Len(coll) THEN st
    ELSE LET s == RangeVar(st.cells, i, coll[i])
         IN  timeIntervalLoop(coll, i + 1,
                 [cells |-> s.cells,
                  m |-> MapInsert(st.m, coll[i].TimeInterval, s.addr)])

\* lines 44-51: the inner loop over s.Tags (a set: the order is immaterial)
RECURSIVE tagsLoop(_, _, _)
tagsLoop(tags, addr, m) ==
    IF tags = {} THEN m
    ELSE LET tag == CHOOSE t \in tags : TRUE
         IN  tagsLoop(tags \ {tag}, addr, MapInsert(m, tag, addr))

\* lines 43-52: the "tag -> series" loop, from iteration i on
RECURSIVE tagLoop(_, _, _)
tagLoop(coll, i, st) ==
    IF i > Len(coll) THEN st
    ELSE LET s == RangeVar(st.cells, i, coll[i])
         IN  tagLoop(coll, i + 1,
                 [cells |-> s.cells, m |-> tagsLoop(coll[i].Tags, s.addr, st.m)])

\* a seriesIds loop that drops an id it has already seen
RECURSIVE seriesIdsDistinct(_)
seriesIdsDistinct(coll) ==
    IF Len(coll) = 0 THEN <<>>
    ELSE LET front == seriesIdsDistinct(SubSeq(coll, 1, Len(coll) - 1))
             x == coll[Len(coll)].Id
         IN  IF \E k \in 1..Len(front) : front[k] = x THEN front ELSE Append(front, x)

\* lines 55-58
seriesIdsOf(coll) == [k \in 1..Len(coll) |-> coll[k].Id]

\* the constructor without its check of the length
NewClientSideIndexNoCheck(heap, vars_, seriesCollection) ==
    LET coll == Elems(heap, seriesCollection)
        bm == timeIntervalLoop(coll, 1, [cells |-> vars_, m |-> EmptyMap])
        tm == tagLoop(coll, 1, [cells |-> bm.cells, m |-> EmptyMap])
    IN  [fatal |-> FALSE,
         cells |-> tm.cells,
         ret |-> <<[timeIntervalMapping |-> bm.m,
                    tagMapping |-> tm.m,
                    seriesCollection |-> seriesCollection,
                    seriesIds |-> seriesIdsOf(coll)]>>]

\* NewClientSideIndex: the outcome is fatal, or the new cells and the index
NewClientSideIndex(heap, vars_, seriesCollection) ==
    IF seriesCollection.len = 0
    THEN [fatal |-> TRUE, cells |-> vars_, ret |-> <<>>]
    ELSE LET coll == Elems(heap, seriesCollection)
             bm == timeIntervalLoop(coll, 1, [cells |-> vars_, m |-> EmptyMap])
             tm == tagLoop(coll, 1, [cells |-> bm.cells, m |-> EmptyMap])
         IN  [fatal |-> FALSE,
              cells |-> tm.cells,
              ret |-> <<[timeIntervalMapping |-> bm.m,
                         tagMapping |-> tm.m,
                         seriesCollection |-> seriesCollection,
                         seriesIds |-> seriesIdsOf(coll)]>>]

\* a "copy" that returns the index's own slice
CopyOfSeriesCollectionAlias(heap, c) ==
    [heap |-> heap, ret |-> c.seriesCollection]

\* a copy with the arguments of copy() exchanged: copy(csi.seriesCollection, ret)
CopyOfSeriesCollectionSwapped(heap, c) ==
    LET n == c.seriesCollection.len
        a == c.seriesCollection.arr
    IN  [heap |-> Append([heap EXCEPT ![a] =
                              [k \in 1..Len(heap[a]) |-> IF k <= n THEN ZeroSeries
                                                         ELSE heap[a][k]]],
                         [k \in 1..n |-> ZeroSeries]),
         ret |-> [arr |-> Len(heap) + 1, len |-> n, cap |-> n]]

\* CopyOfSeriesCollection: make a new array of len elements, copy into it
CopyOfSeriesCollection(heap, c) ==
    LET n == c.seriesCollection.len
    IN  [heap |-> Append(heap, Elems(heap, c.seriesCollection)),
         ret |-> [arr |-> Len(heap) + 1, len |-> n, cap |-> n]]

----------------------------------------------------------------------------
(* What a caller does with a slice it holds *)

\* sl[i] = v
SetElem(heap, sl, i, v) == [heap EXCEPT ![sl.arr][i] = v]

\* sl[i], sl[j] = sl[j], sl[i]
SwapElems(heap, sl, i, j) ==
    [heap EXCEPT ![sl.arr][i] = heap[sl.arr][j], ![sl.arr][j] = heap[sl.arr][i]]

\* append(sl, v): in place while the capacity lasts, else into a new array
\* (the runtime's growth for small slices: twice the capacity)
AppendElem(heap, sl, v) ==
    IF sl.len < sl.cap
    THEN [heap |-> [heap EXCEPT ![sl.arr][sl.len + 1] = v],
          ret |-> [sl EXCEPT !.len = sl.len + 1]]
    ELSE LET newcap == IF sl.cap = 0 THEN 1 ELSE 2 * sl.cap
             new == [k \in 1..newcap |->
                        IF k <= sl.len THEN heap[sl.arr][k]
                        ELSE IF k = sl.len + 1 THEN v ELSE ZeroSeries]
         IN  [heap |-> Append(heap, new),
              ret |-> [arr |-> Len(heap) + 1, len |-> sl.len + 1, cap |-> newcap]]

\* append(sl[:i], sl[i+1:]...): the tail moves down inside the same array
RemoveElem(heap, sl, i) ==
    [heap |-> [heap EXCEPT ![sl.arr] =
                  [k \in 1..Len(heap[sl.arr]) |->
                      IF k >= i /\ k < sl.len THEN heap[sl.arr][k + 1]
                      ELSE heap[sl.arr][k]]],
     ret |-> [sl EXCEPT !.len = sl.len - 1]]

----------------------------------------------------------------------------
(* The index, its caller and the copies the caller takes *)

\* rows as FetchSeriesCollection appends them: NewSeries(tableName, seriesId)
RowPool ==
    { SeriesOf("series_bigint", Str_cpu, <<Tag_h0>>, Str_idle, Day_0101),
      SeriesOf("series_bigint", Str_cpu, <<Tag_h1, Tag_eu>>, Str_idle, Day_0102),
      SeriesOf("series_double", Str_mem, <<Tag_h0, Tag_eu>>, Str_avail, Day_0101) }

\* a row of the caller's that is in no index
CallerRow == SeriesOf("series_double", Str_mem, <<>>, Str_avail, Day_0301)

InitIndex ==
    /\ pc = "start"
    /\ loopvarPerIteration \in BOOLEAN
    /\ \E coll \in SeqsUpTo(RowPool, MaxRows) :
           /\ arrays = <<coll>>
           /\ input = [arr |-> 1, len |-> Len(coll), cap |-> Len(coll)]
    /\ cells = <<>>
    /\ csi = <<>>
    /\ atBuild = <<>>
    /\ copies = <<>>
    /\ writes = 0

Init == InitIndex /\ ParseIdle /\ MatchIdle /\ ReadersIdle

CallNewClientSideIndex ==
    /\ pc = "start"
    /\ LET r == NewClientSideIndex(arrays, cells, input)
       IN  /\ pc' = IF r.fatal THEN "fatal" ELSE "built"
           /\ cells' = r.cells
           /\ csi' = r.ret
    /\ atBuild' = Elems(arrays, input)
    /\ UNCHANGED <<loopvarPerIteration, input, arrays, copies, writes,
                   parseVars, matchVars, readers>>

CallCopyOfSeriesCollection ==
    /\ pc = "built"
    /\ Len(copies) < MaxCopies
    /\ LET r == CopyOfSeriesCollection(arrays, csi[1])
       IN  /\ arrays' = r.heap
           /\ copies' = Append(copies, r.ret)
    /\ UNCHANGED <<pc, loopvarPerIteration, input, cells, csi, atBuild, writes,
                   parseVars, matchVars, readers>>

CallerFrame ==
    /\ pc = "built"
    /\ writes < MaxWrites
    /\ writes' = writes + 1
    /\ UNCHANGED <<pc, loopvarPerIteration, cells, csi, atBuild,
                   parseVars, matchVars, readers>>

\* the caller still holds the slice it passed in
CallerSetsInput ==
    /\ CallerFrame
    /\ \E i \in 1..input.len, v \in RowPool : arrays' = SetElem(arrays, input, i, v)
    /\ UNCHANGED <<input, copies>>

CallerSwapsInput ==
    /\ CallerFrame
    /\ \E i, j \in 1..input.len : i < j /\ arrays' = SwapElems(arrays, input, i, j)
    /\ UNCHANGED <<input, copies>>

CallerSetsCopy ==
    /\ CallerFrame
    /\ \E c \in 1..Len(copies) : \E i \in 1..copies[c].len :
           arrays' = SetElem(arrays, copies[c], i, CallerRow)
    /\ UNCHANGED <<input, copies>>

CallerSwapsCopy ==
    /\ CallerFrame
    /\ \E c \in 1..Len(copies) : \E i, j \in 1..copies[c].len :
           i < j /\ arrays' = SwapElems(arrays, copies[c], i, j)
    /\ UNCHANGED <<input, copies>>

CallerAppendsCopy ==
    /\ CallerFrame
    /\ \E c \in 1..Len(copies) :
           LET r == AppendElem(arrays, copies[c], CallerRow)
           IN  arrays' = r.heap /\ copies' = [copies EXCEPT ![c] = r.ret]
    /\ UNCHANGED input

CallerRemovesCopy ==
    /\ CallerFrame
    /\ \E c \in 1..Len(copies) : \E i \in 1..copies[c].len :
           LET r == RemoveElem(arrays, copies[c], i)
           IN  arrays' = r.heap /\ copies' = [copies EXCEPT ![c] = r.ret]
    /\ UNCHANGED input

\* the constructor and a caller that keeps writing to the slice it passed in
Next ==
    \/ CallNewClientSideIndex
    \/ CallerSetsInput
    \/ CallerSwapsInput

Spec == Init /\ [][Next]_vars

\* the constructor and a caller that takes copies and alters them
NextCopy ==
    \/ CallNewClientSideIndex
    \/ CallCopyOfSeriesCollection
    \/ CallerSetsCopy
    \/ CallerSwapsCopy
    \/ CallerAppendsCopy
    \/ CallerRemovesCopy

SpecCopy == Init /\ [][NextCopy]_vars

----------------------------------------------------------------------------
(* Claims about the constructed index *)

Idx == csi[1]

allRows == Elems(arrays, Idx.seriesCollection)

allIds == Idx.seriesIds

Bucket(m, k) == IF k \in DOMAIN m THEN m[k] ELSE {}

\* the rows a bucket's references denote
BucketRows(m, k) == { Deref(arrays, cells, p) : p \in Bucket(m, k) }

IntervalKeys == { r.TimeInterval : r \in RowPool } \cup DOMAIN Idx.timeIntervalMapping

TagKeys == QueryTags \cup DOMAIN Idx.tagMapping

\* C1: after NewClientSideIndex(rows), for every input row R and key k: R is
\* in the timeIntervalMapping bucket of k iff k is R's interval, and in the
\* tagMapping bucket of k iff k is one of R's tags.
C1_RowsInOwnBuckets ==
    pc = "built" =>
        \A i \in 1..Len(atBuild) :
            /\ \A k \in IntervalKeys :
                   (atBuild[i] \in BucketRows(Idx.timeIntervalMapping, k))
                       <=> (k = atBuild[i].TimeInterval)
            /\ \A k \in TagKeys :
                   (atBuild[i] \in BucketRows(Idx.tagMapping, k))
                       <=> (k \in atBuild[i].Tags)

\* C2: the index does not share its rows with the caller: whatever the
\* caller writes to the slice it passed in, allRows stays as it was at
\* construction and stays parallel to allIds.
C2_IndexOwnsItsRows ==
    pc = "built" =>
        /\ allRows = atBuild
        /\ \A i \in 1..Len(allRows) : allRows[i].Id = allIds[i]

\* C8: NewClientSideIndex is fatal on an empty collection, before any index
\* building, and produces no index; on a non-empty one it returns an index.
C8_EmptyInputFatal ==
    pc # "start" =>
        IF Len(atBuild) = 0
        THEN pc = "fatal" /\ csi = <<>> /\ cells = <<>>
        ELSE pc = "built" /\ Len(csi) = 1

C8_Witness == pc = "fatal" /\ input.len = 0 /\ csi = <<>>

AfterConstruction ==
    /\ Idx.seriesCollection.len = Len(atBuild)
    /\ Len(allIds) = Len(atBuild)
    /\ \A i \in 1..Len(atBuild) : allRows[i] = atBuild[i] /\ allIds[i] = allRows[i].Id

\* C9: when NewClientSideIndex returns, allRows and allIds are as long as
\* the input, allRows[i] is the i-th input row and allIds[i] its Id, in
\* input order, rows with equal ids all kept.
C9_RowsAndIdsParallel ==
    [][(pc = "start" /\ pc' = "built") => AfterConstruction']_vars

C9_Witness ==
    /\ pc = "built"
    /\ writes = 0
    /\ Len(atBuild) = 2
    /\ atBuild[1] = atBuild[2]
    /\ allIds = <<atBuild[1].Id, atBuild[1].Id>>

\* C10: the buckets hold references to the rows of allRows: the entry for
\* input row i in its interval bucket and in each of its tag buckets is the
\* one reference to allRows[i], so a bucket has as many entries as there are
\* input rows that belong to it.
C10_BucketsReferenceAllRows ==
    pc = "built" =>
        /\ \A i \in 1..Len(atBuild) :
               LET p == ElemPtr(Idx.seriesCollection.arr, i)
               IN  /\ p \in Bucket(Idx.timeIntervalMapping, atBuild[i].TimeInterval)
                   /\ \A t \in atBuild[i].Tags : p \in Bucket(Idx.tagMapping, t)
        /\ \A k \in IntervalKeys :
               Cardinality(Bucket(Idx.timeIntervalMapping, k))
                   = Cardinality({ i \in 1..Len(atBuild) : atBuild[i].TimeInterval = k })
        /\ \A k \in TagKeys :
               Cardinality(Bucket(Idx.tagMapping, k))
                   = Cardinality({ i \in 1..Len(atBuild) : k \in atBuild[i].Tags })

----------------------------------------------------------------------------
(* Claims about CopyOfSeriesCollection *)

CopiesChanged ==
    { c \in 1..Len(copies) :
          copies'[c] # copies[c] \/ Elems(arrays', copies'[c]) # Elems(arrays, copies[c]) }

\* C4: CopyOfSeriesCollection returns a new container with the elements of
\* allRows in order; appends, removals, replacements and reorderings the
\* caller applies to it change neither the index's row collection nor any
\* other copy.
C4_CopyIsIndependent ==
    [][/\ (pc = "built" /\ Len(copies') = Len(copies) + 1) =>
              /\ Elems(arrays', copies'[Len(copies')]) = allRows
              /\ copies'[Len(copies')].arr # Idx.seriesCollection.arr
              /\ \A c \in 1..Len(copies) : copies'[Len(copies')].arr # copies[c].arr
              /\ CopiesChanged = {}
       /\ (pc = "built" /\ writes' # writes) => Cardinality(CopiesChanged) <= 1
       /\ pc = "built" =>
              /\ csi' = csi
              /\ Elems(arrays', Idx.seriesCollection) = allRows
      ]_vars

C4_Witness ==
    /\ pc = "built"
    /\ Len(copies) = 2
    /\ copies[1].len > Idx.seriesCollection.len
    /\ copies[2].len = Idx.seriesCollection.len
    /\ Elems(arrays, copies[2]) # allRows
    /\ allRows = atBuild

----------------------------------------------------------------------------
(* Concurrent readers of a constructed index *)

\* what the readers ask
ReaderInterval == NewTimeInterval(Date(2016, 1, 1) + 12, Date(2016, 1, 2))
ReaderName == Str_cpu
ReaderField == Str_idle
ReaderTagSets == <<(<<Tag_h0, Tag_h1>>), (<<Tag_eu>>)>>

\* the collections the readers' index is built from
ReaderInputs ==
    { <<SeriesOf("series_bigint", Str_cpu, <<Tag_h1, Tag_eu>>, Str_idle, Day_0102),
        SeriesOf("series_double", Str_mem, <<Tag_h0>>, Str_avail, Day_0101)>>,
      <<SeriesOf("series_bigint", Str_cpu, <<Tag_eu>>, Str_idle, Day_0101)>> }

\* a reader between calls; ret is the result of its last call
Idle(ret) == [pc |-> "idle", op |-> "", s |-> 0, g |-> 0, t |-> 0, ret |-> ret]

InitReaders ==
    /\ pc = "start"
    /\ loopvarPerIteration \in BOOLEAN
    /\ \E coll \in ReaderInputs :
           /\ arrays = <<coll>>
           /\ input = [arr |-> 1, len |-> Len(coll), cap |-> Len(coll)]
    /\ cells = <<>>
    /\ csi = <<>>
    /\ atBuild = <<>>
    /\ copies = <<>>
    /\ writes = 0
    /\ readers = [r \in 1..NReaders |-> Idle(FALSE)]
    /\ ParseIdle /\ MatchIdle

ReaderFrame == UNCHANGED <<pc, loopvarPerIteration, input, cells, csi, atBuild, writes,
                           parseVars, matchVars>>

\* the receiver of a Matches* call: &csi.seriesCollection[s]
Receiver(rd) == Deref(arrays, cells, ElemPtr(Idx.seriesCollection.arr, rd.s))

ReaderCopies(r) ==
    /\ pc = "built"
    /\ readers[r].pc = "idle"
    /\ Len(copies) < MaxCopies
    /\ LET c == CopyOfSeriesCollection(arrays, Idx)
       IN  /\ arrays' = c.heap
           /\ copies' = Append(copies, c.ret)
    /\ readers' = [readers EXCEPT ![r] = Idle(TRUE)]
    /\ ReaderFrame

\* a reader enters MatchesTimeInterval, MatchesMeasurementName,
\* MatchesFieldName or MatchesTagSets on a row of the index
ReaderCalls(r) ==
    /\ pc = "built"
    /\ readers[r].pc = "idle"
    /\ \E op \in {"MatchesTimeInterval", "MatchesMeasurementName",
                  "MatchesFieldName", "MatchesTagSets"} :
       \E s \in 1..Idx.seriesCollection.len :
           readers' = [readers EXCEPT ![r] =
               [pc |-> IF op = "MatchesTagSets" THEN "tagsets" ELSE "called",
                op |-> op, s |-> s, g |-> 1, t |-> 1, ret |-> FALSE]]
    /\ UNCHANGED <<arrays, copies>>
    /\ ReaderFrame

\* the one-expression predicates
ReaderReturns(r) ==
    /\ pc = "built"
    /\ readers[r].pc = "called"
    /\ LET rd == readers[r]
           ret == IF rd.op = "MatchesTimeInterval"
                  THEN MatchesTimeInterval(Receiver(rd), ReaderInterval)
                  ELSE IF rd.op = "MatchesMeasurementName"
                  THEN MatchesMeasurementName(Receiver(rd), ReaderName)
                  ELSE MatchesFieldName(Receiver(rd), ReaderField)
       IN  readers' = [readers EXCEPT ![r] = Idle(ret)]
    /\ UNCHANGED <<arrays, copies>>
    /\ ReaderFrame

\* MatchesTagSets, line 155: the head of the loop over tagsets
ReaderNextTagset(r) ==
    /\ pc = "built"
    /\ readers[r].pc = "tagsets"
    /\ readers' = [readers EXCEPT ![r] =
           IF readers[r].g > Len(ReaderTagSets)
           THEN Idle(TRUE)
           ELSE [readers[r] EXCEPT !.pc = "tags", !.t = 1]]
    /\ UNCHANGED <<arrays, copies>>
    /\ ReaderFrame

\* MatchesTagSets, lines 158-166: one tag of the group, or the end of the
\* group with no match
ReaderNextTag(r) ==
    /\ pc = "built"
    /\ readers[r].pc = "tags"
    /\ LET rd == readers[r]
           tagset == ReaderTagSets[rd.g]
       IN  readers' = [readers EXCEPT ![r] =
               IF rd.t > Len(tagset) THEN Idle(FALSE)
               ELSE IF tagset[rd.t] \in Receiver(rd).Tags
               THEN [rd EXCEPT !.pc = "tagsets", !.g = rd.g + 1]
               ELSE [rd EXCEPT !.t = rd.t + 1]]
    /\ UNCHANGED <<arrays, copies>>
    /\ ReaderFrame

NextReaders ==
    \/ CallNewClientSideIndex
    \/ \E r \in 1..NReaders :
           \/ ReaderCopies(r)
           \/ ReaderCalls(r)
           \/ ReaderReturns(r)
           \/ ReaderNextTagset(r)
           \/ ReaderNextTag(r)

SpecReaders == InitReaders /\ [][NextReaders]_vars

\* the result of a reader's call when it runs alone on the index
Alone(rd) ==
    IF rd.op = "MatchesTimeInterval" THEN Overlap(Receiver(rd).TimeInterval, ReaderInterval)
    ELSE IF rd.op = "MatchesMeasurementName" THEN Receiver(rd).Measurement = ReaderName
    ELSE IF rd.op = "MatchesFieldName" THEN Receiver(rd).Field = ReaderField
    ELSE \A g \in 1..Len(ReaderTagSets) :
             \E t \in 1..Len(ReaderTagSets[g]) : ReaderTagSets[g][t] \in Receiver(rd).Tags

\* C3: once constructed the index is read-only: under any interleaving of
\* readers calling CopyOfSeriesCollection and the Matches* predicates no
\* field of the index and no row it refers to changes, and every call
\* returns what it returns when run alone.
C3_ReadOnlyUnderReaders ==
    [][pc = "built" =>
           /\ csi' = csi
           /\ cells' = cells
           /\ arrays'[Idx.seriesCollection.arr] = arrays[Idx.seriesCollection.arr]
           /\ (Len(copies') = Len(copies) + 1 =>
                   Elems(arrays', copies'[Len(copies')]) = allRows)
           /\ \A r \in 1..NReaders :
                  (readers[r].op # "" /\ readers'[r].pc = "idle") =>
                      readers'[r].ret = Alone(readers[r])
      ]_vars

C3_Witness ==
    /\ pc = "built"
    /\ Len(copies) = MaxCopies
    /\ readers[1].pc = "tags" /\ readers[1].g = 2
    /\ readers[2].pc = "idle" /\ readers[2].ret
    /\ allRows = atBuild

====
